---- MODULE Spec2Model ----
(***************************************************************************)
(* Fixed-width balanced ternary integer BalancedInt<N> of the bternary     *)
(* crate: conversions, ordering, ripple-carry addition, shift-and-add      *)
(* multiplication, long division and the sub-range (trit field) view.      *)
(* A value is a function 0..N-1 -> Trit, index 0 the least significant.    *)
(***************************************************************************)
EXTENDS Integers, Sequences, FiniteSets, TLC

\* Width of the modelled BalancedInt<N> (the crate instantiates N = 6, 24).
N == 3

\* Native inputs are drawn from -(MaxValue + Extra) .. MaxValue + Extra.
Extra == 2

Neg == -1
Zero == 0
Pos == 1

Trit == {Neg, Zero, Pos}

BalancedInt == [0 .. N - 1 -> Trit]

RECURSIVE Pow3(_)
Pow3(n) == IF n = 0 THEN 1 ELSE 3 * Pow3(n - 1)

\* Largest value of an n-trit field, (3^n - 1) / 2.
MaxOf(n) == (Pow3(n) - 1) \div 2

MaxValue == MaxOf(N)

Natives == -(MaxValue + Extra) .. (MaxValue + Extra)

\* Inputs of the full-width conversion: beyond one whole span on each side.
WideNatives == -(2 * Pow3(N)) .. (2 * Pow3(N))

\* Shift amounts are drawn from 0 .. N + ShiftExtra.
ShiftExtra == 2

Abs(x) == IF x < 0 THEN -x ELSE x

\* Rust's integer / and % truncate toward zero (divisor positive here).
RustDiv(a, b) == IF a >= 0 THEN a \div b ELSE -((-a) \div b)
RustRem(a, b) == a - b * RustDiv(a, b)

\* Variant of the carry computation that takes the floor of sum / 3.
RoundDiv3_floor(sum) == sum \div 3

\* f32::round of sum / 3.0: nearest integer, halves away from zero.
RoundDiv3(sum) == IF sum >= 0 THEN (2 * sum + 3) \div 6
                              ELSE -((3 - 2 * sum) \div 6)

\* Trit::try_from(i8): Ok for -1, 0, 1 and Err otherwise.
TritTryFromOk(value) == value \in Trit

\* Variant of Trit::full_add whose carry truncates sum / 3 instead of
\* rounding it.
TritFullAdd_truncating(a, other, carry_in) ==
    LET sum == a + other + carry_in
        carry == RustDiv(sum, 3)
        result == sum - carry * 3
    IN [sum |-> result, carry |-> carry,
        ok |-> TritTryFromOk(result) /\ TritTryFromOk(carry)]

\* Trit::full_add: the two unwraps panic when try_from fails.
TritFullAdd(a, other, carry_in) ==
    LET sum == a + other + carry_in
        carry == RoundDiv3(sum)
        result == sum - carry * 3
    IN [sum |-> result, carry |-> carry,
        ok |-> TritTryFromOk(result) /\ TritTryFromOk(carry)]

TritNegate(t) == CASE t = Neg -> Pos
                   [] t = Zero -> Zero
                   [] t = Pos -> Neg

\* Derived ordering of the Trit enum: Neg < Zero < Pos.
TritGreater(a, b) == a > b
TritLess(a, b) == a < b

zero == [i \in 0 .. N - 1 |-> Zero]

is_zero(w) == \A i \in 0 .. N - 1 : w[i] = Zero

RECURSIVE sign_loop(_, _)
sign_loop(w, i) == IF i < 0 THEN Zero
                   ELSE IF w[i] # Zero THEN w[i]
                   ELSE sign_loop(w, i - 1)

\* Variant of sign that scans from the least significant trit upward.
RECURSIVE sign_loop_ascending(_, _)
sign_loop_ascending(w, i) == IF i > N - 1 THEN Zero
                             ELSE IF w[i] # Zero THEN w[i]
                             ELSE sign_loop_ascending(w, i + 1)

sign_ascending(w) == sign_loop_ascending(w, 0)

sign(w) == sign_loop(w, N - 1)

RECURSIVE cmp_loop(_, _, _)
cmp_loop(a, other, i) ==
    IF i < 0 THEN "Equal"
    ELSE IF TritGreater(a[i], other[i]) THEN "Greater"
    ELSE IF TritLess(a[i], other[i]) THEN "Less"
    ELSE cmp_loop(a, other, i - 1)

\* Variant of cmp that scans from the least significant trit upward.
RECURSIVE cmp_loop_ascending(_, _, _)
cmp_loop_ascending(a, other, i) ==
    IF i > N - 1 THEN "Equal"
    ELSE IF TritGreater(a[i], other[i]) THEN "Greater"
    ELSE IF TritLess(a[i], other[i]) THEN "Less"
    ELSE cmp_loop_ascending(a, other, i + 1)

cmp_ascending(a, other) == cmp_loop_ascending(a, other, 0)

cmp(a, other) == cmp_loop(a, other, N - 1)

\* a <= b through PartialOrd (partial_cmp = Some(cmp)).
Le(a, other) == cmp(a, other) # "Greater"

RECURSIVE to_int_loop(_, _, _)
to_int_loop(w, i, acc) ==
    IF i < 0 THEN acc ELSE to_int_loop(w, i - 1, acc * 3 + w[i])

to_int(w) == to_int_loop(w, N - 1, 0)

\* Variant of from_int's loop that balances a remainder of 2 to -1 without
\* adding the 1 back to the running quotient.
RECURSIVE from_int_loop_no_carry(_, _, _)
from_int_loop_no_carry(value, i, trits) ==
    IF i >= N \/ value = 0 THEN [trits |-> trits, panic |-> "none"]
    ELSE LET rem0 == RustRem(value, 3)
             value0 == RustDiv(value, 3)
             rem == IF rem0 = 2 THEN -1 ELSE IF rem0 = -2 THEN 1 ELSE rem0
             value1 == IF rem0 = -2 THEN value0 - 1 ELSE value0
         IN IF rem \in Trit
            THEN from_int_loop_no_carry(value1, i + 1,
                                        [trits EXCEPT ![i] = rem])
            ELSE [trits |-> trits, panic |-> "unreachable"]

\* Variant of from_int's loop without the balancing of a remainder of -2.
RECURSIVE from_int_loop_no_minus_two(_, _, _)
from_int_loop_no_minus_two(value, i, trits) ==
    IF i >= N \/ value = 0 THEN [trits |-> trits, panic |-> "none"]
    ELSE LET rem0 == RustRem(value, 3)
             value0 == RustDiv(value, 3)
             rem == IF rem0 = 2 THEN -1 ELSE rem0
             value1 == IF rem0 = 2 THEN value0 + 1 ELSE value0
         IN IF rem \in Trit
            THEN from_int_loop_no_minus_two(value1, i + 1,
                                            [trits EXCEPT ![i] = rem])
            ELSE [trits |-> trits, panic |-> "unreachable"]

\* One pass of from_int's loop body per index; "unreachable" is the
\* unreachable!() arm of the final match.
RECURSIVE from_int_loop(_, _, _)
from_int_loop(value, i, trits) ==
    IF i >= N \/ value = 0 THEN [trits |-> trits, panic |-> "none"]
    ELSE LET rem0 == RustRem(value, 3)
             value0 == RustDiv(value, 3)
             rem == IF rem0 = 2 THEN -1 ELSE IF rem0 = -2 THEN 1 ELSE rem0
             value1 == IF rem0 = 2 THEN value0 + 1
                       ELSE IF rem0 = -2 THEN value0 - 1 ELSE value0
         IN IF rem \in Trit
            THEN from_int_loop(value1, i + 1, [trits EXCEPT ![i] = rem])
            ELSE [trits |-> trits, panic |-> "unreachable"]

from_int(value) == from_int_loop(value, 0, zero)

\* BalancedInt::full_add: ripple of Trit::full_add over indices 0 .. N-1.
RECURSIVE full_add_loop(_, _, _, _, _)
full_add_loop(a, other, i, carry, result) ==
    IF i >= N THEN [sum |-> result, carry |-> carry, ok |-> TRUE]
    ELSE LET t == TritFullAdd(a[i], other[i], carry)
         IN IF ~t.ok THEN [sum |-> result, carry |-> carry, ok |-> FALSE]
            ELSE full_add_loop(a, other, i + 1, t.carry,
                               [result EXCEPT ![i] = t.sum])

\* Variant of full_add that starts the ripple with a Zero carry.
full_add_no_carry_in(a, other, carry_in) ==
    full_add_loop(a, other, 0, Zero, zero)

full_add(a, other, carry_in) == full_add_loop(a, other, 0, carry_in, zero)

\* Variant of negate whose loop stops before the most significant trit.
negate_below_top(a) ==
    [i \in 0 .. N - 1 |-> IF i < N - 1 THEN TritNegate(a[i]) ELSE a[i]]

negate(a) == [i \in 0 .. N - 1 |-> TritNegate(a[i])]

\* Variant of shift_left whose loop starts one index late.
shift_left_late(a, amt) ==
    [i \in 0 .. N - 1 |-> IF i > amt THEN a[i - amt] ELSE Zero]

\* Variant of shift_left that rotates instead of dropping the top trits.
shift_left_rotating(a, amt) ==
    [i \in 0 .. N - 1 |-> a[(i - amt) % N]]

\* result[i] = self[i - amt] for i in amt..N (empty when amt >= N).
shift_left(a, amt) ==
    [i \in 0 .. N - 1 |-> IF i >= amt THEN a[i - amt] ELSE Zero]

abs(a) == IF sign(a) = Neg THEN negate(a) ELSE a

\* impl Add: the carry out of full_add is dropped.
add(a, rhs) == LET r == full_add(a, rhs, Zero)
               IN [val |-> r.sum, ok |-> r.ok]

\* impl AddAssign: the same ripple, written in place over self.
RECURSIVE add_assign_loop(_, _, _, _)
add_assign_loop(a, rhs, i, carry) ==
    IF i >= N THEN [val |-> a, ok |-> TRUE]
    ELSE LET t == TritFullAdd(a[i], rhs[i], carry)
         IN IF ~t.ok THEN [val |-> a, ok |-> FALSE]
            ELSE add_assign_loop([a EXCEPT ![i] = t.sum], rhs, i + 1, t.carry)

add_assign(a, rhs) == add_assign_loop(a, rhs, 0, Zero)

\* impl Sub: self + rhs.negate().
sub(a, rhs) == add(a, negate(rhs))

\* impl MulAssign: shift-and-add over the trits of rhs.
RECURSIVE mul_assign_loop(_, _, _, _)
mul_assign_loop(multiplicand, rhs, i, accumulator) ==
    IF i >= N THEN [val |-> accumulator, ok |-> TRUE]
    ELSE IF rhs[i] = Zero
         THEN mul_assign_loop(multiplicand, rhs, i + 1, accumulator)
    ELSE LET partial_product == IF rhs[i] = Pos THEN multiplicand
                                ELSE negate(multiplicand)
             shifted_product == shift_left(partial_product, i)
             acc == add_assign(accumulator, shifted_product)
         IN IF ~acc.ok THEN [val |-> accumulator, ok |-> FALSE]
            ELSE mul_assign_loop(multiplicand, rhs, i + 1, acc.val)

mul_assign(a, rhs) == mul_assign_loop(a, rhs, 0, zero)

\* impl Mul: self *= rhs; self.
mul(a, rhs) == mul_assign(a, rhs)

\* Index of the most significant non-zero trit of the divisor, 0 if none.
RECURSIVE divisor_msb_pos_loop(_, _)
divisor_msb_pos_loop(divisor, i) ==
    IF i < 0 THEN 0
    ELSE IF divisor[i] # Zero THEN i
    ELSE divisor_msb_pos_loop(divisor, i - 1)

\* The trial subtract / add loop of div_rem, i descending to 0.
RECURSIVE div_rem_loop(_, _, _, _)
div_rem_loop(remainder, quotient, divisor, i) ==
    IF i < 0
    THEN [quotient |-> quotient, remainder |-> remainder, panic |-> "none"]
    ELSE IF i > N - 1
    THEN [quotient |-> quotient, remainder |-> remainder,
          panic |-> "index out of bounds"]
    ELSE LET shifted_divisor == shift_left(divisor, i)
             rem_after_sub == sub(remainder, shifted_divisor)
             rem_after_add == add(remainder, shifted_divisor)
         IN IF ~rem_after_sub.ok
            THEN [quotient |-> quotient, remainder |-> remainder,
                  panic |-> "unwrap on Err"]
            ELSE IF Le(abs(rem_after_sub.val), abs(remainder))
            THEN div_rem_loop(rem_after_sub.val,
                              [quotient EXCEPT ![i] = Pos], divisor, i - 1)
            ELSE IF ~rem_after_add.ok
            THEN [quotient |-> quotient, remainder |-> remainder,
                  panic |-> "unwrap on Err"]
            ELSE IF Le(abs(rem_after_add.val), abs(remainder))
            THEN div_rem_loop(rem_after_add.val,
                              [quotient EXCEPT ![i] = Neg], divisor, i - 1)
            ELSE div_rem_loop(remainder, quotient, divisor, i - 1)

\* Variant of div_rem without the final sign correction of the quotient.
div_rem_no_sign_fix(a, rhs) ==
    IF is_zero(rhs)
    THEN [quotient |-> zero, remainder |-> a, panic |-> "Division by zero"]
    ELSE LET divisor == abs(rhs)
             divisor_msb_pos == divisor_msb_pos_loop(divisor, N - 1)
         IN div_rem_loop(a, zero, divisor, N - divisor_msb_pos - 1)

\* Variant of div_rem without the zero-divisor check.
div_rem_no_zero_check(a, rhs) ==
    LET divisor_sign == sign(rhs)
        divisor == abs(rhs)
        divisor_msb_pos == divisor_msb_pos_loop(divisor, N - 1)
        r == div_rem_loop(a, zero, divisor, N - divisor_msb_pos - 1)
    IN IF r.panic = "none" /\ divisor_sign = Neg
       THEN [r EXCEPT !.quotient = negate(r.quotient)]
       ELSE r

div_rem(a, rhs) ==
    IF is_zero(rhs)
    THEN [quotient |-> zero, remainder |-> a, panic |-> "Division by zero"]
    ELSE LET divisor_sign == sign(rhs)
             divisor == abs(rhs)
             divisor_msb_pos == divisor_msb_pos_loop(divisor, N - 1)
             r == div_rem_loop(a, zero, divisor, N - divisor_msb_pos - 1)
         IN IF r.panic = "none" /\ divisor_sign = Neg
            THEN [r EXCEPT !.quotient = negate(r.quotient)]
            ELSE r

\* <Int as TryFrom<i64>>::try_from for the Word binding Int = i64: every
\* i64 converts.
IntTryFromOk(value) == value \in Int

RECURSIVE read_trit_range_loop(_, _, _, _)
read_trit_range_loop(w, start, i, value) ==
    IF i < start THEN value
    ELSE read_trit_range_loop(w, start, i - 1, value * 3 + w[i])

read_trit_range(w, start, end) ==
    IF start > end \/ end >= N
    THEN [tag |-> "RangeInvalid", int |-> 0]
    ELSE LET value == read_trit_range_loop(w, start, end, 0)
         IN IF IntTryFromOk(value) THEN [tag |-> "Ok", int |-> value]
            ELSE [tag |-> "ValueRange", int |-> 0]

\* Variant of the writing loop that divides num by 3 without first
\* subtracting the remainder.
RECURSIVE write_trit_range_loop_plain_div(_, _, _, _)
write_trit_range_loop_plain_div(w, num, i, end) ==
    IF i > end
    THEN [self |-> w, tag |-> IF num # 0 THEN "Err" ELSE "Ok",
          panic |-> "none"]
    ELSE LET remainder == RustRem(num + 1, 3) - 1
         IN IF ~TritTryFromOk(remainder)
            THEN [self |-> w, tag |-> "none", panic |-> "unwrap on Err"]
            ELSE write_trit_range_loop_plain_div(
                     [w EXCEPT ![i] = remainder], RustDiv(num, 3), i + 1, end)

\* The conversion and writing loop of write_trit_range, i in start..=end;
\* the unwrap of Trit::try_from panics with self written up to i - 1.
RECURSIVE write_trit_range_loop(_, _, _, _)
write_trit_range_loop(w, num, i, end) ==
    IF i > end
    THEN [self |-> w, tag |-> IF num # 0 THEN "Err" ELSE "Ok",
          panic |-> "none"]
    ELSE LET remainder == RustRem(num + 1, 3) - 1
         IN IF ~TritTryFromOk(remainder)
            THEN [self |-> w, tag |-> "none", panic |-> "unwrap on Err"]
            ELSE write_trit_range_loop([w EXCEPT ![i] = remainder],
                                       RustDiv(num - remainder, 3), i + 1, end)

\* Variant of write_trit_range whose loop starts at index 0 instead of
\* start.
write_trit_range_from_zero(w, value, start, end) ==
    IF ~(start <= end)
    THEN [self |-> w, tag |-> "none",
          panic |-> "Start of range cannot be after the end."]
    ELSE IF ~(end < N)
    THEN [self |-> w, tag |-> "none",
          panic |-> "End of range is out of bounds for this Word size."]
    ELSE IF ~IntTryFromOk(value)
    THEN [self |-> w, tag |-> "Err", panic |-> "none"]
    ELSE write_trit_range_loop(w, value, 0, end)

write_trit_range(w, value, start, end) ==
    IF ~(start <= end)
    THEN [self |-> w, tag |-> "none",
          panic |-> "Start of range cannot be after the end."]
    ELSE IF ~(end < N)
    THEN [self |-> w, tag |-> "none",
          panic |-> "End of range is out of bounds for this Word size."]
    ELSE IF ~IntTryFromOk(value)
    THEN [self |-> w, tag |-> "Err", panic |-> "none"]
    ELSE write_trit_range_loop(w, value, start, end)

(***************************************************************************)
(* State: the receiver self, the right operand rhs, the arguments and the  *)
(* receiver's value before the last call (arg), the last call's result     *)
(* (ret), the panic message of the last call, and pc, the last call made.  *)
(***************************************************************************)
VARIABLES pc, self, rhs, arg, ret, panic

vars == <<pc, self, rhs, arg, ret, panic>>

arg0 == [value |-> 0, start |-> 0, end |-> 0, old |-> zero]

ret0 == [word |-> zero, rem |-> zero, int |-> 0, ord |-> "none",
         tag |-> "none", write |-> "none", trit |-> Zero, carry |-> Zero]

\* Two operands of an operator expression, before the operator is applied.
Init == /\ pc = "init"
        /\ self \in BalancedInt
        /\ rhs \in BalancedInt
        /\ arg = arg0
        /\ ret = ret0
        /\ panic = "none"

AddOp == /\ pc = "init"
         /\ LET r == add(self, rhs)
            IN /\ ret' = [ret0 EXCEPT !.word = r.val]
               /\ panic' = IF r.ok THEN "none" ELSE "unwrap on Err"
         /\ pc' = "add"
         /\ UNCHANGED <<self, rhs, arg>>

SubOp == /\ pc = "init"
         /\ LET r == sub(self, rhs)
            IN /\ ret' = [ret0 EXCEPT !.word = r.val]
               /\ panic' = IF r.ok THEN "none" ELSE "unwrap on Err"
         /\ pc' = "sub"
         /\ UNCHANGED <<self, rhs, arg>>

MulOp == /\ pc = "init"
         /\ LET r == mul(self, rhs)
            IN /\ ret' = [ret0 EXCEPT !.word = r.val]
               /\ panic' = IF r.ok THEN "none" ELSE "unwrap on Err"
         /\ pc' = "mul"
         /\ UNCHANGED <<self, rhs, arg>>

\* The private div_rem call, both components of its result kept.
DivRemOp == /\ pc = "init"
            /\ LET r == div_rem(self, rhs)
               IN /\ ret' = IF r.panic = "none"
                            THEN [ret0 EXCEPT !.word = r.quotient,
                                              !.rem = r.remainder]
                            ELSE ret0
                  /\ panic' = r.panic
            /\ pc' = "div_rem"
            /\ UNCHANGED <<self, rhs, arg>>

DivOp == /\ pc = "init"
         /\ LET r == div_rem(self, rhs)
            IN /\ ret' = IF r.panic = "none"
                         THEN [ret0 EXCEPT !.word = r.quotient] ELSE ret0
               /\ panic' = r.panic
         /\ pc' = "div"
         /\ UNCHANGED <<self, rhs, arg>>

RemOp == /\ pc = "init"
         /\ LET r == div_rem(self, rhs)
            IN /\ ret' = IF r.panic = "none"
                         THEN [ret0 EXCEPT !.word = r.remainder] ELSE ret0
               /\ panic' = r.panic
         /\ pc' = "rem"
         /\ UNCHANGED <<self, rhs, arg>>

DivAssignOp == /\ pc = "init"
               /\ LET r == div_rem(self, rhs)
                  IN /\ self' = IF r.panic = "none" THEN r.quotient ELSE self
                     /\ panic' = r.panic
               /\ pc' = "div_assign"
               /\ arg' = [arg0 EXCEPT !.old = self]
               /\ UNCHANGED <<rhs, ret>>

RemAssignOp == /\ pc = "init"
               /\ LET r == div_rem(self, rhs)
                  IN /\ self' = IF r.panic = "none" THEN r.remainder ELSE self
                     /\ panic' = r.panic
               /\ pc' = "rem_assign"
               /\ arg' = [arg0 EXCEPT !.old = self]
               /\ UNCHANGED <<rhs, ret>>

CmpOp == /\ pc = "init"
         /\ ret' = [ret0 EXCEPT !.ord = cmp(self, rhs)]
         /\ pc' = "cmp"
         /\ UNCHANGED <<self, rhs, arg, panic>>

\* self[i].full_add(other[i], carry) on the trits at one index.
TritFullAddOp(i, carry_in) ==
    /\ pc = "init"
    /\ LET t == TritFullAdd(self[i], rhs[i], carry_in)
       IN /\ ret' = [ret0 EXCEPT !.trit = t.sum, !.carry = t.carry]
          /\ panic' = IF t.ok THEN "none" ELSE "unwrap on Err"
    /\ arg' = [arg0 EXCEPT !.value = carry_in, !.start = i]
    /\ pc' = "trit_full_add"
    /\ UNCHANGED <<self, rhs>>

FullAddOp(carry_in) ==
    /\ pc = "init"
    /\ LET r == full_add(self, rhs, carry_in)
       IN /\ ret' = [ret0 EXCEPT !.word = r.sum, !.carry = r.carry]
          /\ panic' = IF r.ok THEN "none" ELSE "unwrap on Err"
    /\ arg' = [arg0 EXCEPT !.value = carry_in]
    /\ pc' = "full_add"
    /\ UNCHANGED <<self, rhs>>

Next == \/ AddOp \/ SubOp \/ MulOp
        \/ DivRemOp \/ DivOp \/ RemOp \/ DivAssignOp \/ RemAssignOp
        \/ CmpOp
        \/ \E i \in 0 .. N - 1, carry_in \in Trit : TritFullAddOp(i, carry_in)
        \/ \E carry_in \in Trit : FullAddOp(carry_in)

Spec == Init /\ [][Next]_vars

(***************************************************************************)
(* Conversions and the sub-range view: a receiver and the calls            *)
(* from_int(v).to_int(), to_int(), write_trit_range followed by            *)
(* read_trit_range of the same range, and read_trit_range alone.           *)
(***************************************************************************)
InitConv == /\ pc = "init"
            /\ self \in BalancedInt
            /\ rhs = zero
            /\ arg = arg0
            /\ ret = ret0
            /\ panic = "none"

FromIntOp(value) ==
    /\ pc = "init"
    /\ LET r == from_int(value)
       IN /\ self' = r.trits
          /\ panic' = r.panic
    /\ arg' = [arg0 EXCEPT !.value = value, !.old = self]
    /\ pc' = "from_int"
    /\ UNCHANGED <<rhs, ret>>

ToIntOp ==
    /\ pc \in {"init", "from_int"}
    /\ panic = "none"
    /\ ret' = [ret0 EXCEPT !.int = to_int(self)]
    /\ pc' = IF pc = "init" THEN "to_int" ELSE "from_int_to_int"
    /\ UNCHANGED <<self, rhs, arg, panic>>

WriteTritRangeOp(value, start, end) ==
    /\ pc = "init"
    /\ LET r == write_trit_range(self, value, start, end)
       IN /\ self' = r.self
          /\ ret' = [ret0 EXCEPT !.write = r.tag]
          /\ panic' = r.panic
    /\ arg' = [value |-> value, start |-> start, end |-> end, old |-> self]
    /\ pc' = "write_trit_range"
    /\ UNCHANGED rhs

\* read_trit_range of the range just written.
ReadBackOp ==
    /\ pc = "write_trit_range"
    /\ panic = "none"
    /\ LET r == read_trit_range(self, arg.start, arg.end)
       IN ret' = [ret EXCEPT !.tag = r.tag, !.int = r.int]
    /\ pc' = "write_read"
    /\ UNCHANGED <<self, rhs, arg, panic>>

ReadTritRangeOp(start, end) ==
    /\ pc = "init"
    /\ LET r == read_trit_range(self, start, end)
       IN ret' = [ret0 EXCEPT !.tag = r.tag, !.int = r.int]
    /\ arg' = [arg0 EXCEPT !.start = start, !.end = end, !.old = self]
    /\ pc' = "read_trit_range"
    /\ UNCHANGED <<self, rhs, panic>>

SignOp ==
    /\ pc = "init"
    /\ ret' = [ret0 EXCEPT !.trit = sign(self)]
    /\ pc' = "sign"
    /\ UNCHANGED <<self, rhs, arg, panic>>

\* negate() of the receiver, then negate() of that result.
NegateOp ==
    /\ pc \in {"init", "negate"}
    /\ ret' = [ret0 EXCEPT !.word = negate(IF pc = "init" THEN self
                                                          ELSE ret.word)]
    /\ pc' = IF pc = "init" THEN "negate" ELSE "negate_negate"
    /\ UNCHANGED <<self, rhs, arg, panic>>

\* The loop reads self[i - amt] for i in amt..N; an index outside 0 .. N-1
\* would panic.
ShiftLeftOp(amt) ==
    /\ pc = "init"
    /\ ret' = [ret0 EXCEPT !.word = shift_left(self, amt)]
    /\ panic' = IF \E i \in amt .. N - 1 : (i - amt) \notin DOMAIN self
                THEN "index out of bounds" ELSE "none"
    /\ arg' = [arg0 EXCEPT !.value = amt]
    /\ pc' = "shift_left"
    /\ UNCHANGED <<self, rhs>>

NextConv == \/ \E value \in WideNatives : FromIntOp(value)
            \/ SignOp
            \/ NegateOp
            \/ \E amt \in 0 .. N + ShiftExtra : ShiftLeftOp(amt)
            \/ ToIntOp
            \/ \E value \in Natives, start \in 0 .. N, end \in 0 .. N :
                   WriteTritRangeOp(value, start, end)
            \/ ReadBackOp
            \/ \E start \in 0 .. N, end \in 0 .. N :
                   ReadTritRangeOp(start, end)

SpecConv == InitConv /\ [][NextConv]_vars

(***************************************************************************)
(* Properties.                                                             *)
(***************************************************************************)

\* The unique integer of the representable range congruent to x mod 3^N.
WrapInt(x) == ((x + MaxValue) % Pow3(N)) - MaxValue

\* C1: for every native v with |v| <= (3^N - 1)/2, from_int(v).to_int()
\* returns v.
C1_RoundTrip ==
    (pc = "from_int_to_int" /\ Abs(arg.value) <= MaxValue)
        => ret.int = arg.value

C1_Witness ==
    /\ pc = "from_int_to_int"
    /\ arg.value = -MaxValue + 1
    /\ ret.int = arg.value

\* C2: a + b never panics and its value is the representable integer
\* congruent to to_int(a) + to_int(b) modulo 3^N; max + 1 is min.
C2_AddWraps ==
    pc = "add" =>
        /\ panic = "none"
        /\ to_int(ret.word) = WrapInt(to_int(self) + to_int(rhs))
        /\ (to_int(self) = MaxValue /\ to_int(rhs) = 1)
               => to_int(ret.word) = -MaxValue

C2_Witness ==
    /\ pc = "add"
    /\ to_int(self) = MaxValue
    /\ to_int(rhs) = 1
    /\ to_int(ret.word) = -MaxValue

\* C3: a * b is the representable integer congruent to the product of the
\* operands modulo 3^N, the exact product when that is representable;
\* x * 0 is 0 and x * 1 is x.
C3_MulWraps ==
    pc = "mul" =>
        /\ panic = "none"
        /\ to_int(ret.word) = WrapInt(to_int(self) * to_int(rhs))
        /\ Abs(to_int(self) * to_int(rhs)) <= MaxValue
               => to_int(ret.word) = to_int(self) * to_int(rhs)
        /\ is_zero(rhs) => is_zero(ret.word)
        /\ to_int(rhs) = 1 => ret.word = self

C3_Witness ==
    /\ pc = "mul"
    /\ Abs(to_int(self) * to_int(rhs)) > MaxValue
    /\ to_int(rhs) < 0
    /\ to_int(ret.word) = WrapInt(to_int(self) * to_int(rhs))

\* C4: for a non-zero divisor b and (q, r) = div_rem(a, b), the wrapping
\* N-trit value q * b + r equals a.
C4_DivIdentityWrapped ==
    (pc = "div_rem" /\ ~is_zero(rhs)) =>
        /\ panic = "none"
        /\ add(mul(ret.word, rhs).val, ret.rem).val = self

C4_Witness ==
    /\ pc = "div_rem"
    /\ sign(rhs) = Neg
    /\ ~is_zero(ret.word)
    /\ ~is_zero(ret.rem)
    /\ add(mul(ret.word, rhs).val, ret.rem).val = self

\* C5: for a non-zero divisor b, to_int(a / b) * to_int(b) + to_int(a % b)
\* equals to_int(a) as exact integers.
C5_DivIdentityExact ==
    (pc = "div_rem" /\ ~is_zero(rhs)) =>
        to_int(ret.word) * to_int(rhs) + to_int(ret.rem) = to_int(self)

\* C6: for a non-zero divisor b the remainder of div_rem(a, b) satisfies
\* |to_int(a % b)| <= |to_int(b)|.
C6_RemainderBound ==
    (pc = "div_rem" /\ ~is_zero(rhs)) =>
        Abs(to_int(ret.rem)) <= Abs(to_int(rhs))

\* C7: for a non-zero divisor b the remainder is balanced,
\* 2 * |to_int(a % b)| <= |to_int(b)|.
C7_BalancedRemainder ==
    (pc = "div_rem" /\ ~is_zero(rhs)) =>
        2 * Abs(to_int(ret.rem)) <= Abs(to_int(rhs))

\* C8: /, %, /= and %= panic with "Division by zero" exactly when the
\* divisor is all-zero, and complete without any panic otherwise.
C8_DivByZeroIff ==
    pc \in {"div", "rem", "div_assign", "rem_assign"} =>
        /\ (panic = "Division by zero") <=> is_zero(rhs)
        /\ ~is_zero(rhs) => panic = "none"

C8_Witness ==
    /\ pc = "rem_assign"
    /\ is_zero(rhs)
    /\ ~is_zero(self)
    /\ panic = "Division by zero"

\* C9: cmp(a, b) is Less, Equal or Greater exactly when to_int(a) is
\* below, equal to or above to_int(b).
C9_CmpConsistent ==
    pc = "cmp" =>
        /\ (ret.ord = "Less") <=> (to_int(self) < to_int(rhs))
        /\ (ret.ord = "Equal") <=> (to_int(self) = to_int(rhs))
        /\ (ret.ord = "Greater") <=> (to_int(self) > to_int(rhs))

C9_Witness ==
    /\ pc = "cmp"
    /\ ret.ord = "Less"
    /\ self[0] = Pos
    /\ rhs[0] = Neg
    /\ to_int(self) < to_int(rhs)

\* C10: for start <= end < N and |v| <= (3^(end-start+1) - 1)/2,
\* write_trit_range(v, start, end) succeeds and the following
\* read_trit_range(start, end) returns v.
C10_SubRangeRoundTrip ==
    (/\ pc \in {"write_trit_range", "write_read"}
     /\ arg.start <= arg.end
     /\ arg.end < N
     /\ Abs(arg.value) <= MaxOf(arg.end - arg.start + 1)) =>
        /\ panic = "none"
        /\ ret.write = "Ok"
        /\ pc = "write_read" => (ret.tag = "Ok" /\ ret.int = arg.value)

\* C11: for start <= end < N and |v| > (3^(end-start+1) - 1)/2,
\* write_trit_range(v, start, end) returns the "value does not fit" error:
\* it neither panics nor reports success.
C11_WriteRejectsOverflow ==
    (/\ pc = "write_trit_range"
     /\ arg.start <= arg.end
     /\ arg.end < N
     /\ Abs(arg.value) > MaxOf(arg.end - arg.start + 1)) =>
        /\ panic = "none"
        /\ ret.write = "Err"

\* C12: read_trit_range and write_trit_range called with start > end or
\* end >= N return the range-invalid error without panicking and leave the
\* value unmodified.
C12_RangeValidation ==
    (/\ pc \in {"read_trit_range", "write_trit_range"}
     /\ (arg.start > arg.end \/ arg.end >= N)) =>
        /\ panic = "none"
        /\ pc = "read_trit_range" => ret.tag = "RangeInvalid"
        /\ pc = "write_trit_range" => ret.write = "RangeInvalid"
        /\ self = arg.old

\* C13: for all 27 combinations of (a, b, carry_in), Trit::full_add
\* returns sum and carry_out in {-1, 0, 1} with
\* sum + 3 * carry_out = a + b + carry_in, and neither unwrap fails.
C13_TritFullAdd ==
    pc = "trit_full_add" =>
        /\ panic = "none"
        /\ ret.trit \in Trit
        /\ ret.carry \in Trit
        /\ ret.trit + 3 * ret.carry
               = self[arg.start] + rhs[arg.start] + arg.value

C13_Witness ==
    /\ pc = "trit_full_add"
    /\ self[arg.start] = Neg
    /\ rhs[arg.start] = Neg
    /\ arg.value = Zero
    /\ ret.trit = Pos
    /\ ret.carry = Neg

\* C18: full_add(a, b, carry_in) returns (sum, carry_out) with carry_out in
\* {-1, 0, 1} and to_int(sum) + 3^N * carry_out
\* = to_int(a) + to_int(b) + carry_in as exact integers.
C18_WordFullAdd ==
    pc = "full_add" =>
        /\ panic = "none"
        /\ ret.carry \in Trit
        /\ to_int(ret.word) + Pow3(N) * ret.carry
               = to_int(self) + to_int(rhs) + arg.value

C18_Witness ==
    /\ pc = "full_add"
    /\ arg.value = Neg
    /\ ret.carry = Neg
    /\ to_int(self) + to_int(rhs) = -MaxValue
    /\ to_int(ret.word) = MaxValue

\* C14: for every native v, also beyond the representable range, from_int
\* completes without reaching unreachable!() and to_int(from_int(v)) is the
\* representable integer congruent to v modulo 3^N.
C14_FromIntWraps ==
    /\ pc = "from_int" => panic = "none"
    /\ pc = "from_int_to_int" => ret.int = WrapInt(arg.value)

C14_Witness ==
    /\ pc = "from_int_to_int"
    /\ arg.value = -(Pow3(N) + MaxValue + 1)
    /\ ret.int = MaxValue

\* C15: sign(x) is Pos, Neg or Zero exactly when to_int(x) is positive,
\* negative or zero.
C15_SignCorrect ==
    pc = "sign" =>
        /\ (ret.trit = Pos) <=> (to_int(self) > 0)
        /\ (ret.trit = Neg) <=> (to_int(self) < 0)
        /\ (ret.trit = Zero) <=> (to_int(self) = 0)

C15_Witness ==
    /\ pc = "sign"
    /\ self[N - 1] = Zero
    /\ self[N - 2] = Pos
    /\ self[0] = Neg
    /\ ret.trit = Pos

\* C16: to_int(negate(x)) = -to_int(x) exactly, negate(negate(x)) = x and
\* negate(0) = 0.
C16_NegateExact ==
    /\ pc = "negate" =>
           /\ to_int(ret.word) = -to_int(self)
           /\ is_zero(self) => is_zero(ret.word)
    /\ pc = "negate_negate" => ret.word = self

C16_Witness ==
    /\ pc = "negate_negate"
    /\ to_int(self) = -MaxValue
    /\ ret.word = self

\* C17: shift_left(x, k) moves trit i to index i + k, drops the trits with
\* i + k >= N, zero-fills below k, equals x * 3^k under wraparound
\* (shift_left(x, 1) = x * 3), is all-Zero for every k >= N, and reads no
\* index out of bounds.
C17_ShiftLeft ==
    pc = "shift_left" =>
        /\ panic = "none"
        /\ \A i \in 0 .. N - 1 :
               /\ i + arg.value < N => ret.word[i + arg.value] = self[i]
               /\ i < arg.value => ret.word[i] = Zero
        /\ to_int(ret.word) = WrapInt(to_int(self) * Pow3(arg.value))
        /\ arg.value = 1 => ret.word = mul(self, from_int(3).trits).val
        /\ arg.value >= N => is_zero(ret.word)

C17_Witness ==
    /\ pc = "shift_left"
    /\ arg.value = 1
    /\ self[N - 1] = Pos
    /\ self[0] = Neg
    /\ ret.word[1] = Neg
    /\ ret.word[0] = Zero

\* The unique integer of an n-trit field congruent to x modulo 3^n.
WrapSpan(x, n) == ((x + MaxOf(n)) % Pow3(n)) - MaxOf(n)

\* C19: for start <= end < N and any v, write_trit_range(v, start, end),
\* whatever its outcome, leaves every trit outside [start, end] unchanged.
C19_WriteFrame ==
    (pc = "write_trit_range" /\ arg.start <= arg.end /\ arg.end < N) =>
        \A i \in 0 .. N - 1 :
            (i < arg.start \/ i > arg.end) => self[i] = arg.old[i]

C19_Witness ==
    /\ pc = "write_trit_range"
    /\ arg.start = 1
    /\ arg.end = 1
    /\ self[1] # arg.old[1]
    /\ arg.old[0] = Pos
    /\ self[0] = Pos
    /\ arg.old[N - 1] = Neg
    /\ self[N - 1] = Neg

\* C20 as claimed: when write_trit_range fails because v does not fit, the
\* target is exactly as it was before the call.
C20_FailedWriteAtomic ==
    (/\ pc = "write_trit_range"
     /\ arg.start <= arg.end
     /\ arg.end < N
     /\ ret.write = "Err") => self = arg.old

\* C20 as amended: when write_trit_range returns the does-not-fit error,
\* the trits outside [start, end] are as before and the trits of
\* [start, end] hold the low end-start+1 balanced digits of v, so the range
\* reads as the field value congruent to v modulo 3^(end-start+1).
C20_FailedWriteKeepsLowDigits ==
    (/\ pc = "write_trit_range"
     /\ arg.start <= arg.end
     /\ arg.end < N
     /\ ret.write = "Err") =>
        /\ panic = "none"
        /\ Abs(arg.value) > MaxOf(arg.end - arg.start + 1)
        /\ \A i \in 0 .. N - 1 :
               (i < arg.start \/ i > arg.end) => self[i] = arg.old[i]
        /\ read_trit_range(self, arg.start, arg.end).int
               = WrapSpan(arg.value, arg.end - arg.start + 1)

C20_Witness ==
    /\ pc = "write_trit_range"
    /\ ret.write = "Err"
    /\ arg.start = 0
    /\ arg.end = 1
    /\ arg.value = MaxOf(2) + 1
    /\ is_zero(arg.old)
    /\ self[0] = Neg
    /\ self[1] = Neg

====
